---- MODULE Spec2Model ----
(***************************************************************************)
(* Model of the diagram repair and layout step of the SysML generator:     *)
(* DiagramPositioning.apply_positioning (backend/app/AI/                    *)
(* diagram_generation.py).  The function takes an untyped JSON tree,       *)
(* patches it in place and returns it.                                      *)
(*                                                                         *)
(* JSON values are modelled by records of one shape each:                  *)
(*   element       [isDict, hasId, id, hasType, type, name, hasPos, x, y]   *)
(*                 name stands for the fields the layout never reads        *)
(*                 (name, description, properties); hasType = FALSE is an   *)
(*                 element without the key "type"                           *)
(*                 isDict = FALSE is a list entry that is not a mapping;    *)
(*                 hasId = FALSE is a mapping without the key "id";         *)
(*                 id = "" with hasId is an empty (falsy) id                *)
(*   relationship  [isDict, source_id, target_id]                           *)
(*                 "" stands for an absent, null or empty endpoint          *)
(*   diagram       [kind, hasType, elemKind, elements, relKind,             *)
(*                  relationships]                                          *)
(*                 kind     "dict" | "list" | "str" | "none"                *)
(*                 elemKind "missing" | "list" | "str" | "none"             *)
(*                 relKind  "missing" | "list" | "none"                     *)
(***************************************************************************)
EXTENDS Integers, Sequences, FiniteSets, TLC

VARIABLES raw, diagram_data, result, element_level_indices, caught, pc,
          ibd_table, diagram_table, requests, commits, serial

\* the database tables, the requests in flight and the log of their commits
dbvars == <<ibd_table, diagram_table, requests, commits, serial>>

vars == <<raw, diagram_data, result, element_level_indices, caught, pc,
          ibd_table, diagram_table, requests, commits, serial>>

\* No table is touched and no request is in flight
NoDatabase ==
    /\ ibd_table = <<>>
    /\ diagram_table = <<>>
    /\ requests = <<>>
    /\ commits = <<>>
    /\ serial = TRUE

(* ---------------------------- bounds ---------------------------------- *)

MaxElems == 3
MaxRels == 2
MaxNodes == 4
MaxEdges == 3

(* ------------------------- program constants --------------------------- *)

Y_SPACING == 200
BASE_Y == 0
ELEMENT_X_SPACING == 300

\* the spacing without the index: every element of a level at the same x
get_x_position_fixed(index_in_level) == ELEMENT_X_SPACING

get_x_position(index_in_level) == index_in_level * ELEMENT_X_SPACING

\* the level counted upwards
get_y_position_up(level_index) == BASE_Y - (level_index * Y_SPACING)

get_y_position(level_index) == BASE_Y + (level_index * Y_SPACING)

(* ----------------------------- values ---------------------------------- *)

Junk == [isDict |-> FALSE, hasId |-> FALSE, id |-> "",
         hasType |-> FALSE, type |-> "", name |-> "",
         hasPos |-> FALSE, x |-> 0, y |-> 0]

Elem(hasId, id) == [isDict |-> TRUE, hasId |-> hasId, id |-> id,
                    hasType |-> FALSE, type |-> "", name |-> "",
                    hasPos |-> FALSE, x |-> 0, y |-> 0]

JunkRel == [isDict |-> FALSE, source_id |-> "", target_id |-> ""]

Rel(s, t) == [isDict |-> TRUE, source_id |-> s, target_id |-> t]

Dict(hasType, elemKind, elements, relKind, relationships) ==
    [kind |-> "dict", hasType |-> hasType, elemKind |-> elemKind,
     elements |-> elements, relKind |-> relKind,
     relationships |-> relationships]

NonDict(kind) ==
    [kind |-> kind, hasType |-> FALSE, elemKind |-> "missing",
     elements |-> <<>>, relKind |-> "missing", relationships |-> <<>>]

\* the literal of line 53
EmptyDiagram == Dict(TRUE, "list", <<>>, "list", <<>>)

\* Python truthiness of the argument: None and the empty mapping are falsy
Truthy(d) ==
    CASE d.kind = "none" -> FALSE
      [] d.kind = "dict" ->
            d.hasType \/ d.elemKind # "missing" \/ d.relKind # "missing"
      [] OTHER -> TRUE

\* `not elements or not isinstance(elements, list)` of line 60
NoElements(d) == d.elemKind # "list" \/ Len(d.elements) = 0

\* the index used as it is, without the + 1
AssignedIdZeroBased(i) == "element-" \o ToString(i)

\* f"element-{i+1}" of line 68; i is the 0-based index
AssignedId(i) == "element-" \o ToString(i + 1)

(* ------------------- apply_positioning, step by step ------------------- *)

Falsy(id) == id = ""

\* `not element.get("id")` of line 67
LacksId(element) == ~element.hasId \/ Falsy(element.id)

\* Lines 66-69.  The loop patches the elements in place, so an entry that is
\* not a mapping stops it (AttributeError) with the earlier entries patched.
RECURSIVE assign_ids(_, _)
assign_ids(elements, i) ==
    IF i > Len(elements)
    THEN [elements |-> elements, raised |-> FALSE]
    ELSE IF ~elements[i].isDict
    THEN [elements |-> elements, raised |-> TRUE]
    ELSE IF LacksId(elements[i])
    THEN assign_ids([elements EXCEPT ![i].hasId = TRUE,
                                     ![i].id = AssignedId(i - 1)], i + 1)
    ELSE assign_ids(elements, i + 1)

\* Line 72: the keys of element_map (its values, the indices, are never read)
element_map(elements) ==
    {elements[i].id : i \in {j \in 1..Len(elements) : elements[j].hasId}}

\* line 97 with insert(0, rel) in place of append(rel)
RECURSIVE validate_relationships_prepending(_, _, _, _)
validate_relationships_prepending(relationships, ids, i, acc) ==
    IF i > Len(relationships)
    THEN acc
    ELSE LET rel == relationships[i] IN
         IF ~rel.isDict
         THEN [acc EXCEPT !.raised = TRUE]
         ELSE IF Falsy(rel.source_id) \/ Falsy(rel.target_id)
         THEN validate_relationships_prepending(relationships, ids, i + 1, acc)
         ELSE IF rel.source_id \notin ids
         THEN validate_relationships_prepending(relationships, ids, i + 1, acc)
         ELSE IF rel.target_id \notin ids
         THEN validate_relationships_prepending(relationships, ids, i + 1, acc)
         ELSE validate_relationships_prepending(relationships, ids, i + 1,
                [acc EXCEPT
                   !.valid_relationships = <<rel>> \o @,
                   !.source_elements = @ \cup {rel.source_id},
                   !.target_elements = @ \cup {rel.target_id}])

\* Lines 75-101: one pass over the relationships, collecting the valid
\* ones and the ids seen as source and as target.  A relationship that is
\* not a mapping raises (AttributeError on rel.get).
RECURSIVE validate_relationships(_, _, _, _)
validate_relationships(relationships, ids, i, acc) ==
    IF i > Len(relationships)
    THEN acc
    ELSE LET rel == relationships[i] IN
         IF ~rel.isDict
         THEN [acc EXCEPT !.raised = TRUE]
         ELSE IF Falsy(rel.source_id) \/ Falsy(rel.target_id)
         THEN validate_relationships(relationships, ids, i + 1, acc)
         ELSE IF rel.source_id \notin ids
         THEN validate_relationships(relationships, ids, i + 1, acc)
         ELSE IF rel.target_id \notin ids
         THEN validate_relationships(relationships, ids, i + 1, acc)
         ELSE validate_relationships(relationships, ids, i + 1,
                [acc EXCEPT
                   !.valid_relationships = Append(@, rel),
                   !.source_elements = @ \cup {rel.source_id},
                   !.target_elements = @ \cup {rel.target_id}])

\* Lines 113-124: the level index of one element id
\* -1 and 1 the other way round: pure sources on top
level_index_of_flipped(element_id, source_elements, target_elements) ==
    IF element_id \in target_elements /\ element_id \notin source_elements
    THEN 1
    ELSE IF element_id \in target_elements /\ element_id \in source_elements
    THEN 0
    ELSE IF element_id \in source_elements /\ element_id \notin target_elements
    THEN -1
    ELSE 0

level_index_of(element_id, source_elements, target_elements) ==
    IF element_id \in target_elements /\ element_id \notin source_elements
    THEN -1
    ELSE IF element_id \in target_elements /\ element_id \in source_elements
    THEN 0
    ELSE IF element_id \in source_elements /\ element_id \notin target_elements
    THEN 1
    ELSE 0

\* Lines 107-124: element_level_indices, keyed by element id
assign_levels(elements, source_elements, target_elements) ==
    LET keyed == {elements[i].id :
                    i \in {j \in 1..Len(elements) : ~LacksId(elements[j])}}
    IN [element_id \in keyed |->
          level_index_of(element_id, source_elements, target_elements)]

\* Lines 127-131
initial_level_counts(levels) ==
    [level_index \in {levels[element_id] : element_id \in DOMAIN levels} |-> 0]

\* `+=` in place of `=` at lines 153-154: a position already there is added to
RECURSIVE assign_positions_added(_, _, _, _)
assign_positions_added(elements, levels, level_counts, i) ==
    IF i > Len(elements)
    THEN elements
    ELSE LET level_index == IF elements[i].id \in DOMAIN levels
                            THEN levels[elements[i].id] ELSE 0
             count == IF level_index \in DOMAIN level_counts
                      THEN level_counts[level_index] ELSE 0
             counts == [l \in DOMAIN level_counts \cup {level_index} |->
                          IF l = level_index THEN count + 1
                          ELSE level_counts[l]]
         IN assign_positions_added(
              [elements EXCEPT
                 ![i].hasPos = TRUE,
                 ![i].x = @ + get_x_position(count),
                 ![i].y = @ + get_y_position(level_index)],
              levels, counts, i + 1)

\* Lines 134-157: positions in element order, one counter per level
RECURSIVE assign_positions(_, _, _, _)
assign_positions(elements, levels, level_counts, i) ==
    IF i > Len(elements)
    THEN elements
    ELSE IF LacksId(elements[i])
    THEN assign_positions(elements, levels, level_counts, i + 1)
    ELSE LET element_id == elements[i].id
             level_index == IF element_id \in DOMAIN levels
                            THEN levels[element_id] ELSE 0
             count == IF level_index \in DOMAIN level_counts
                      THEN level_counts[level_index] ELSE 0
             x_pos == get_x_position(count)
             y_pos == get_y_position(level_index)
             counts == [l \in DOMAIN level_counts \cup {level_index} |->
                          IF l = level_index THEN count + 1
                          ELSE level_counts[l]]
         IN assign_positions(
              [elements EXCEPT ![i].hasPos = TRUE, ![i].x = x_pos,
                               ![i].y = y_pos],
              levels, counts, i + 1)

NoLevels == [element_id \in {} |-> 0]

\* What a call leaves behind: the value returned, the argument object as
\* patched in place, the level mapping computed (empty when the call never
\* got that far) and whether the except branch of line 162 ran.
Outcome(value, data, levels, wasCaught) ==
    [value |-> value, data |-> data, levels |-> levels, caught |-> wasCaught]

\* Lines 49-165
apply_positioning(d) ==
    IF ~Truthy(d) \/ d.kind # "dict"
    THEN Outcome(IF Truthy(d) THEN d ELSE EmptyDiagram, d, NoLevels, FALSE)
    ELSE IF NoElements(d)
    THEN LET cleared == [d EXCEPT !.elemKind = "list", !.elements = <<>>]
         IN Outcome(cleared, cleared, NoLevels, FALSE)
    ELSE LET ids == assign_ids(d.elements, 1)
             d1 == [d EXCEPT !.elements = ids.elements]
         IN
         IF ids.raised
         THEN Outcome(d1, d1, NoLevels, TRUE)
         ELSE IF d.relKind = "none"
         THEN Outcome(d1, d1, NoLevels, TRUE)
         ELSE LET v == validate_relationships(
                         d1.relationships, element_map(d1.elements), 1,
                         [valid_relationships |-> <<>>,
                          source_elements |-> {},
                          target_elements |-> {},
                          raised |-> FALSE])
              IN
              IF v.raised
              THEN Outcome(d1, d1, NoLevels, TRUE)
              ELSE LET levels == assign_levels(d1.elements,
                                   v.source_elements, v.target_elements)
                       placed == assign_positions(d1.elements, levels,
                                   initial_level_counts(levels), 1)
                       d2 == [d1 EXCEPT
                                !.relKind = "list",
                                !.relationships = v.valid_relationships,
                                !.elements = placed]
                   IN Outcome(d2, d2, levels, FALSE)

(* ------------------------------ inputs --------------------------------- *)

SeqsUpTo(S, n) == UNION {[1..k -> S] : k \in 0..n}

\* Raw model output: entries that are not mappings, absent, empty, duplicate
\* and element-<n> shaped ids; relationships with absent and unknown ends.
ElemChoice ==
    {Junk, Elem(FALSE, ""), Elem(TRUE, ""), Elem(TRUE, "a"),
     Elem(TRUE, "element-2")}

\* "element-2" is a known id only when an element carries it or is given it
EndChoice == {"a", "element-2"}

RelChoice ==
    {JunkRel, Rel("", "a"), Rel("a", "")}
      \cup {Rel(s, t) : s \in EndChoice, t \in EndChoice}

RelValues ==
    {<<"missing", <<>>>>, <<"none", <<>>>>}
      \cup {<<"list", rs>> : rs \in SeqsUpTo(RelChoice, MaxRels)}

\* Well-formed diagrams: distinct ids, every relationship between elements.
NodeNames == <<"a", "b", "c", "d", "e", "f">>

NodeLabels == <<"A", "B", "C", "D", "E", "F">>

\* The element types the prompt asks the model for (lines 182 and 209-249)
AllowedTypes == {"block", "sensor", "processor"}

\* The type of the i-th element: allowed ones, one the prompt does not
\* name, and (the third) none at all
NodeTypes == <<"block", "widget", "", "sensor", "processor", "actuator">>

Nodes(n) ==
    [i \in 1..n |-> [Elem(TRUE, NodeNames[i]) EXCEPT
                       !.name = NodeLabels[i],
                       !.hasType = (NodeTypes[i] # ""),
                       !.type = NodeTypes[i]]]

\* The k-th of the n*n possible relationships between n elements
Edge(n, k) == Rel(NodeNames[((k - 1) \div n) + 1], NodeNames[((k - 1) % n) + 1])

\* The strictly increasing sequences over 1..top of length at most len
RECURSIVE Increasing(_, _)
Increasing(top, len) ==
    IF len = 0 THEN {<<>>}
    ELSE LET shorter == Increasing(top, len - 1)
             longest == {q \in shorter : Len(q) = len - 1}
             After(q) == IF Len(q) = 0 THEN 1..top ELSE (q[Len(q)] + 1)..top
         IN shorter \cup UNION {{Append(q, m) : m \in After(q)} : q \in longest}

\* A relationship list for each set of at most MaxEdges relationships
Edges(n) ==
    {[i \in 1..Len(q) |-> Edge(n, q[i])] : q \in Increasing(n * n, MaxEdges)}

(* --------------------------- state machine ----------------------------- *)

NoResult == NonDict("none")

InitWith(d) ==
    /\ raw = d
    /\ diagram_data = raw
    /\ result = NoResult
    /\ element_level_indices = NoLevels
    /\ caught = FALSE
    /\ pc = "start"
    /\ NoDatabase

\* Raw model output: a value that is not a mapping, a mapping whose elements
\* are not a list, or a mapping with an element list
Init ==
    \/ \E k \in {"none", "list", "str"} : InitWith(NonDict(k))
    \/ \E ht \in BOOLEAN, ek \in {"missing", "none", "str"}, rv \in RelValues :
          InitWith(Dict(ht, ek, <<>>, rv[1], rv[2]))
    \/ \E es \in SeqsUpTo(ElemChoice, MaxElems), rv \in RelValues :
          InitWith(Dict(TRUE, "list", es, rv[1], rv[2]))

\* Well-formed diagrams of up to MaxNodes elements
InitGraph ==
    \E n \in 1..MaxNodes : \E rs \in Edges(n) :
        InitWith(Dict(TRUE, "list", Nodes(n), "list", rs))

\* A caller passes the raw diagram: generate_diagram, line 452
ApplyPositioning ==
    /\ pc = "start"
    /\ LET o == apply_positioning(diagram_data) IN
         /\ diagram_data' = o.data
         /\ result' = o.value
         /\ element_level_indices' = o.levels
         /\ caught' = o.caught
    /\ pc' = "done"
    /\ UNCHANGED <<raw, dbvars>>

\* A later call on the value an earlier call returned: the positions are
\* already populated and the ids already assigned
ApplyPositioningAgain ==
    /\ pc = "done"
    /\ LET o == apply_positioning(result) IN
         /\ result' = o.value
         /\ element_level_indices' = o.levels
         /\ caught' = o.caught
    /\ pc' = "again"
    /\ UNCHANGED <<raw, diagram_data, dbvars>>

Next == ApplyPositioning \/ ApplyPositioningAgain

Spec == Init /\ [][Next]_vars

SpecGraph == InitGraph /\ [][Next]_vars

TypeOK ==
    /\ pc \in {"start", "done", "again", "extracted", "optimized", "serving",
              "storing", "generated", "responded", "sent"}
    /\ caught \in BOOLEAN
    /\ serial \in BOOLEAN
    /\ Len(commits) <= Len(requests)

(* ------------------------- reading a diagram --------------------------- *)

Indices(seq) == 1..Len(seq)

AllMappings(seq) == \A i \in Indices(seq) : seq[i].isDict

\* The input is a mapping whose elements and relationships are lists of
\* mappings (the relationships key may be absent)
WellTyped(d) ==
    /\ d.kind = "dict"
    /\ d.elemKind = "list"
    /\ AllMappings(d.elements)
    /\ d.relKind \in {"list", "missing"}
    /\ AllMappings(d.relationships)

\* The id loop of lines 66-69 ran over the whole element list
IdStepRan(d) ==
    /\ d.kind = "dict"
    /\ d.elemKind = "list"
    /\ Len(d.elements) > 0
    /\ AllMappings(d.elements)

IdsOf(elements) ==
    {elements[i].id : i \in {j \in Indices(elements) :
                               elements[j].isDict /\ ~LacksId(elements[j])}}

HasEnds(rel, ids) ==
    /\ rel.isDict
    /\ ~Falsy(rel.source_id) /\ rel.source_id \in ids
    /\ ~Falsy(rel.target_id) /\ rel.target_id \in ids

NoDangling(d) ==
    \A i \in Indices(d.relationships) :
        HasEnds(d.relationships[i], IdsOf(d.elements))

UniqueIds(elements) ==
    /\ \A i \in Indices(elements) :
          elements[i].isDict /\ ~LacksId(elements[i])
    /\ \A i, j \in Indices(elements) :
          i # j => elements[i].id # elements[j].id

\* The Diagram invariants of the data model
DiagramInvariants(d) ==
    /\ d.kind = "dict"
    /\ d.elemKind = "list"
    /\ UniqueIds(d.elements)
    /\ d.relKind = "list"
    /\ NoDangling(d)

\* The indices, in ascending order, of the relationships with both ends in ids
RECURSIVE KeptIndices(_, _, _)
KeptIndices(seq, ids, i) ==
    IF i > Len(seq) THEN <<>>
    ELSE IF HasEnds(seq[i], ids)
    THEN <<i>> \o KeptIndices(seq, ids, i + 1)
    ELSE KeptIndices(seq, ids, i + 1)

(* ------------------------------ C1 .. C6 ------------------------------- *)

\* C1: after the id-assignment step every element id is non-empty, the ids
\* are pairwise distinct within the list, and an id that was present and
\* non-empty is unchanged.
C1_IdsUniqueAndKept ==
    (pc = "done" /\ IdStepRan(raw)) =>
        /\ UniqueIds(result.elements)
        /\ \A i \in Indices(raw.elements) :
              ~LacksId(raw.elements[i]) =>
                  result.elements[i].id = raw.elements[i].id

\* C2: for every element list and relationship list, the relationships kept
\* are exactly the input relationships whose two ends are non-empty ids of
\* elements of the diagram, in input order, duplicates kept.
C2_KeptAreExactlyTheValid ==
    (pc = "done" /\ WellTyped(raw)) =>
        LET kept == KeptIndices(raw.relationships, IdsOf(result.elements), 1)
        IN /\ result.relKind \in {"list", "missing"}
           /\ result.relationships =
                 [k \in Indices(kept) |-> raw.relationships[kept[k]]]

\* C3: for every input mapping (its list entries mappings), on every return
\* path, the early return of lines 60-63 included, the returned diagram has
\* no relationship whose source_id or target_id is not the id of a returned
\* element.
C3_NoDanglingOnAnyReturn ==
    (/\ pc = "done"
     /\ raw.kind = "dict"
     /\ AllMappings(raw.elements)
     /\ AllMappings(raw.relationships)
     /\ raw.relKind # "none") => NoDangling(result)

\* C4: a malformed input (not a mapping, or a mapping without the elements
\* key) gives an empty well-formed diagram: a mapping with diagram_type, an
\* empty elements list and an empty relationships list.
C4_MalformedGivesEmptyDiagram ==
    (pc = "done" /\ (raw.kind # "dict" \/ raw.elemKind = "missing")) =>
        /\ result.kind = "dict"
        /\ result.hasType
        /\ result.elemKind = "list" /\ result.elements = <<>>
        /\ result.relKind = "list" /\ result.relationships = <<>>

\* C5: apply_positioning always returns, and what it returns satisfies the
\* Diagram invariants (unique non-empty ids, no dangling relationship), also
\* when an internal error was caught part-way through the repair.
C5_CaughtErrorStillValid ==
    (pc = "done" /\ caught) =>
        /\ result # NoResult
        /\ DiagramInvariants(result)

ExpectedId ==
    <<"element-1", "element-2", "element-3", "element-4", "element-5",
      "element-6">>

\* C6: every element whose id is absent or empty gets the id element-<i+1>,
\* i its 0-based index in the input list; a repeated call leaves the ids as
\* the first call set them.
C6_MissingIdIsPositional ==
    /\ (pc = "done" /\ IdStepRan(raw)) =>
          \A i \in Indices(raw.elements) :
              LacksId(raw.elements[i]) =>
                  /\ result.elements[i].hasId
                  /\ result.elements[i].id = ExpectedId[i]
    /\ (pc = "again" /\ IdStepRan(raw)) =>
          /\ Len(result.elements) = Len(raw.elements)
          /\ \A i \in Indices(raw.elements) :
                /\ result.elements[i].id = diagram_data.elements[i].id
                /\ LacksId(raw.elements[i]) =>
                      result.elements[i].id = ExpectedId[i]

\* C6 witness: the element at index 2 (the third) had no id and now has
\* "element-3", also after a second call
C6_Witness ==
    /\ pc = "again"
    /\ IdStepRan(raw)
    /\ Len(raw.elements) >= 3
    /\ ~raw.elements[3].hasId
    /\ result.elements[3].id = "element-3"

(* ------------------------- reading a layout ---------------------------- *)

EdgePairs(d) ==
    {<<d.relationships[i].source_id, d.relationships[i].target_id>> :
        i \in Indices(d.relationships)}

Preds(v, E) == {e[1] : e \in {f \in E : f[2] = v}}

Succs(v, E) == {e[2] : e \in {f \in E : f[1] = v}}

Max(S) == CHOOSE m \in S : \A n \in S : n <= m

\* No cycle among the nodes N: peel off the nodes without a predecessor
RECURSIVE Acyclic(_, _)
Acyclic(N, E) ==
    IF N = {} THEN TRUE
    ELSE LET roots == {v \in N : Preds(v, E) \cap N = {}} IN
         IF roots = {} THEN FALSE ELSE Acyclic(N \ roots, E)

\* Naive reference: the longest path from an in-degree-0 node to v (E acyclic)
RECURSIVE LongestPath(_, _)
LongestPath(v, E) ==
    IF Preds(v, E) = {} THEN 0
    ELSE 1 + Max({LongestPath(u, E) : u \in Preds(v, E)})

Laid(d) ==
    /\ d.kind = "dict"
    /\ Len(d.elements) > 0
    /\ \A i \in Indices(d.elements) : d.elements[i].hasPos

\* The elements of a level are those that share a y
SameLevel(d, i) == {j \in Indices(d.elements) : d.elements[j].y = d.elements[i].y}

IndexInLevel(d, i) == Cardinality({j \in SameLevel(d, i) : j < i})

WidestLevel(d) == Max({Cardinality(SameLevel(d, i)) : i \in Indices(d.elements)})

(* ------------------------------ C7 .. C10 ------------------------------ *)

\* C7: for every acyclic set of valid relationships, the level assigned to an
\* element is the length of the longest path from an in-degree-0 element to it.
C7_LevelIsLongestPath ==
    (pc = "done" /\ Acyclic(IdsOf(result.elements), EdgePairs(result))) =>
        \A id \in IdsOf(result.elements) :
            element_level_indices[id] = LongestPath(id, EdgePairs(result))

\* C8: when no element has in-degree 0 over the valid relationships, every
\* element is assigned level 0.
C8_NoSourceAllLevelZero ==
    (/\ pc = "done"
     /\ \A id \in IdsOf(result.elements) :
            Preds(id, EdgePairs(result)) # {}) =>
        \A id \in IdsOf(result.elements) : element_level_indices[id] = 0

\* C9: level 0 is the topmost level and y = level * 200 with levels counted
\* from 0: every y is a non-negative multiple of 200 and a sink is at y = 0;
\* for a, b with the single relationship a -> b: a.y = 200, b.y = 0,
\* a.x = b.x = 0.
C9_SinksOnTopAtZero ==
    (pc = "done" /\ Laid(result)) =>
        /\ \A i \in Indices(result.elements) :
              LET e == result.elements[i] IN
              /\ e.y >= 0
              /\ e.y % Y_SPACING = 0
              /\ Succs(e.id, EdgePairs(result)) = {} => e.y = 0
        /\ (/\ raw.elements = Nodes(2)
            /\ raw.relationships = <<Rel("a", "b")>>) =>
              /\ result.elements[1].y = 200 /\ result.elements[1].x = 0
              /\ result.elements[2].y = 0 /\ result.elements[2].x = 0

\* C10: every level is centred on the widest level: the element at index k of
\* a level with n elements has x = k*300 + ((widest - n)/2)*300 (stated
\* doubled, the half-step offsets being exact).
C10_LevelsCentred ==
    (pc = "done" /\ Laid(result)) =>
        \A i \in Indices(result.elements) :
            2 * result.elements[i].x =
                2 * IndexInLevel(result, i) * ELEMENT_X_SPACING
                  + (WidestLevel(result) - Cardinality(SameLevel(result, i)))
                      * ELEMENT_X_SPACING

(* ------------------------------ C11 .. C13 ----------------------------- *)

C12_Idempotent == [][pc = "done" => result' = result]_vars

\* C12 witness: a second call on a laid-out diagram with two elements on one
\* level and a relationship
C12_Witness ==
    /\ pc = "again"
    /\ Laid(result)
    /\ Len(result.relationships) >= 1
    /\ \E i, j \in Indices(result.elements) :
          result.elements[i].y = result.elements[j].y
            /\ result.elements[j].x > 0

\* C13: on a diagram that already satisfies the Diagram invariants the call
\* changes nothing but the positions: same length and order of the elements,
\* every other field of every element unchanged, relationships unchanged.
C13_OnlyPositionsChange ==
    (pc = "done" /\ DiagramInvariants(raw)) =>
        /\ result.kind = raw.kind /\ result.hasType = raw.hasType
        /\ Len(result.elements) = Len(raw.elements)
        /\ \A i \in Indices(raw.elements) :
              [result.elements[i] EXCEPT !.hasPos = FALSE, !.x = 0, !.y = 0]
                 = [raw.elements[i] EXCEPT !.hasPos = FALSE, !.x = 0, !.y = 0]
        /\ result.relationships = raw.relationships

\* C13 witness: a valid diagram of three named elements and two relationships
\* came back laid out, a position changed
C13_Witness ==
    /\ pc = "done"
    /\ DiagramInvariants(raw)
    /\ Len(raw.elements) >= 3 /\ Len(raw.relationships) >= 2
    /\ Laid(result)
    /\ result.elements[1].name = "A" /\ result.elements[3].name = "C"
    /\ \E i \in Indices(result.elements) : result.elements[i].y # 0

(* ====================================================================== *)
(* IBD extraction: generate_diagram_with_context, rag_router.py 185-210     *)
(*                                                                          *)
(*   element          [hasId, id, hasData, has_ibd, hasInternal,            *)
(*                     internal_diagram]                                    *)
(*                    hasData: the key "data" is there; has_ibd: the value  *)
(*                    of data.has_ibd (FALSE when absent)                   *)
(*   internal_diagram [hasNodes, nodes, hasEdges, edges]                    *)
(*   request          [diagram_type, hasElements, elements]                 *)
(* ====================================================================== *)

MaxBlocks == 2

NoInternal == [hasNodes |-> FALSE, nodes |-> <<>>,
               hasEdges |-> FALSE, edges |-> <<>>]

Internal(hasNodes, nodes, hasEdges, edges) ==
    [hasNodes |-> hasNodes, nodes |-> nodes,
     hasEdges |-> hasEdges, edges |-> edges]

Block(hasId, id, hasData, hasInternal, internal_diagram) ==
    [hasId |-> hasId, id |-> id, hasData |-> hasData, has_ibd |-> FALSE,
     hasInternal |-> hasInternal, internal_diagram |-> internal_diagram]

\* ibd_data.get("nodes", []) with the edges, and the other way round
ibd_record_swapped(element, ibd_data) ==
    [parent_block_id |-> element.id,
     nodes |-> IF ibd_data.hasEdges THEN ibd_data.edges ELSE <<>>,
     edges |-> IF ibd_data.hasNodes THEN ibd_data.nodes ELSE <<>>]

\* Lines 196 and 206-210: the record kept for the upsert
ibd_record(element, ibd_data) ==
    [parent_block_id |-> element.id,
     nodes |-> IF ibd_data.hasNodes THEN ibd_data.nodes ELSE <<>>,
     edges |-> IF ibd_data.hasEdges THEN ibd_data.edges ELSE <<>>]

\* Lines 187-210, one element per step.  Lines 190-195 flag the element and
\* pop the key before element["id"] is read at line 199; without an id that
\* read raises KeyError and the loop is left with the element already changed.
RECURSIVE extract_loop(_, _, _)
extract_loop(elements, i, ibd_to_create) ==
    IF i > Len(elements)
    THEN [raised |-> FALSE, elements |-> elements,
          ibd_to_create |-> ibd_to_create]
    ELSE IF ~elements[i].hasInternal
    THEN extract_loop(elements, i + 1, ibd_to_create)
    ELSE LET ibd_data == elements[i].internal_diagram
             popped == [elements EXCEPT ![i].hasData = TRUE,
                                        ![i].has_ibd = TRUE,
                                        ![i].hasInternal = FALSE,
                                        ![i].internal_diagram = NoInternal]
         IN IF ~elements[i].hasId
            THEN [raised |-> TRUE, elements |-> popped,
                  ibd_to_create |-> ibd_to_create]
            ELSE extract_loop(popped, i + 1,
                   Append(ibd_to_create, ibd_record(elements[i], ibd_data)))

\* Lines 185-210
extract_ibds(request) ==
    IF request.diagram_type = "bdd_enhanced" /\ request.hasElements
    THEN extract_loop(request.elements, 1, <<>>)
    ELSE [raised |-> FALSE, elements |-> request.elements,
          ibd_to_create |-> <<>>]

InternalChoice ==
    { Internal(FALSE, <<>>, FALSE, <<>>),
      Internal(TRUE, <<"n1">>, TRUE, <<"e1">>),
      Internal(TRUE, <<"n1", "n2">>, FALSE, <<>>) }

BlockChoice ==
    { Block(hid[1], hid[2], hd, FALSE, NoInternal) :
        hid \in {<<FALSE, "">>, <<TRUE, "a">>, <<TRUE, "b">>}, hd \in BOOLEAN }
    \cup
    { Block(hid[1], hid[2], hd, TRUE, int) :
        hid \in {<<FALSE, "">>, <<TRUE, "a">>, <<TRUE, "b">>}, hd \in BOOLEAN,
        int \in InternalChoice }

\* The parsed model output reaches the extraction in the request's mode
InitIbd ==
    \E dt \in {"bdd", "bdd_enhanced"}, he \in BOOLEAN :
      \E es \in SeqsUpTo(BlockChoice, MaxBlocks) :
        /\ (~he => es = <<>>)
        /\ raw = [diagram_type |-> dt, hasElements |-> he, elements |-> es]
        /\ diagram_data = raw
        /\ result = NoResult
        /\ element_level_indices = NoLevels
        /\ caught = FALSE
        /\ pc = "start"
        /\ NoDatabase

ExtractIbds ==
    /\ pc = "start"
    /\ result' = extract_ibds(raw)
    /\ caught' = result'.raised
    /\ pc' = "extracted"
    /\ UNCHANGED <<raw, diagram_data, element_level_indices, dbvars>>

NextIbd == ExtractIbds

SpecIbd == InitIbd /\ [][NextIbd]_vars

\* the indices of the elements carrying internal_diagram, in list order
RECURSIVE Carriers(_, _)
Carriers(elements, i) ==
    IF i > Len(elements) THEN <<>>
    ELSE IF elements[i].hasInternal
         THEN <<i>> \o Carriers(elements, i + 1)
         ELSE Carriers(elements, i + 1)

MaxOptNodes == 2
MaxOptEdges == 2

\* Line 70 without its test: every key of the properties is copied
node_properties_all(data) ==
    IF data.hasProperties THEN data.properties ELSE <<>>

\* Lines 61-71: the properties without the key "id"
\* (`key != "id" or key == "name"` is `key != "id"`)
node_properties(data) ==
    IF data.hasProperties
    THEN [key \in {k \in DOMAIN data.properties : k # "id" \/ k = "name"} |->
            data.properties[key]]
    ELSE <<>>

\* Lines 51-73
node_to_element(node) ==
    [id |-> node.id,
     type |-> node.type,
     name |-> IF node.data.hasLabel THEN node.data.label ELSE "",
     description |-> IF node.data.hasDescription
                     THEN node.data.description ELSE "",
     properties |-> node_properties(node.data)]

\* Lines 79-91: name from data.name when that key is there, else from a
\* non-empty label, else no name key
edge_to_relationship(edge) ==
    LET base == [source_id |-> edge.source, target_id |-> edge.target,
                 type |-> edge.type, hasName |-> FALSE, name |-> ""]
    IN IF edge.dataKind = "dict" /\ edge.hasName
       THEN [base EXCEPT !.hasName = TRUE, !.name = edge.name]
       ELSE IF edge.hasLabel /\ ~Falsy(edge.label)
       THEN [base EXCEPT !.hasName = TRUE, !.name = edge.label]
       ELSE base

\* Lines 41-88: only the keys "nodes" and "edges" are read
optimize_diagram_json(diagram_json) ==
    [diagram_type |-> "block",
     elements |-> IF diagram_json.hasNodes
                  THEN [i \in 1..Len(diagram_json.nodes) |->
                          node_to_element(diagram_json.nodes[i])]
                  ELSE <<>>,
     relationships |-> IF diagram_json.hasEdges
                       THEN [i \in 1..Len(diagram_json.edges) |->
                               edge_to_relationship(diagram_json.edges[i])]
                       ELSE <<>>]

NodeData(hasLabel, label, hasDesc, desc, hasProps, props) ==
    [hasLabel |-> hasLabel, label |-> label,
     hasDescription |-> hasDesc, description |-> desc,
     hasProperties |-> hasProps, properties |-> props]

NodeDataChoice ==
    { NodeData(TRUE, "Engine", TRUE, "drives", TRUE,
               [id |-> "p1", weight |-> "5kg"]),
      NodeData(FALSE, "", FALSE, "", FALSE, <<>>),
      NodeData(TRUE, "", FALSE, "", TRUE, [name |-> "n", id |-> "p2"]) }

NodeChoice ==
    { [id |-> it[1], type |-> it[2], data |-> d] :
        it \in {<<"a", "block">>, <<"b", "sensor">>}, d \in NodeDataChoice }

EdgeOf(dataKind, hasName, name, hasLabel, label) ==
    [source |-> "a", target |-> "b", type |-> "flow",
     dataKind |-> dataKind, hasName |-> hasName, name |-> name,
     hasLabel |-> hasLabel, label |-> label]

EdgeChoice ==
    { EdgeOf(dk, FALSE, "", l[1], l[2]) :
        dk \in {"missing", "none", "dict"},
        l \in {<<FALSE, "">>, <<TRUE, "L">>} }
    \cup
    { EdgeOf("dict", TRUE, "feeds", l[1], l[2]) :
        l \in {<<FALSE, "">>, <<TRUE, "L">>} }
    \cup
    { EdgeOf("dict", FALSE, "", TRUE, ""), EdgeOf("dict", TRUE, "", TRUE, "L") }

\* The flat shape, as apply_positioning returns it: one element per id
FlatElement(id) == [id |-> id, type |-> "block", name |-> id]

FlatRelationship == [source_id |-> "a", target_id |-> "a", type |-> "flow"]

InitOptWith(d) ==
    /\ raw = d
    /\ diagram_data = raw
    /\ result = NoResult
    /\ element_level_indices = NoLevels
    /\ caught = FALSE
    /\ pc = "start"
    /\ NoDatabase

\* The diagram handed to store_diagram_with_embedding: nodes/edges as the
\* editor sends it (create_diagram_embedding), or elements/relationships as
\* generate_diagram_with_context passes it on
InitOpt ==
    \/ \E hn, he \in BOOLEAN :
         \E ns \in SeqsUpTo(NodeChoice, MaxOptNodes),
            es \in SeqsUpTo(EdgeChoice, MaxOptEdges) :
           /\ (~hn => ns = <<>>) /\ (~he => es = <<>>)
           /\ InitOptWith([hasNodes |-> hn, nodes |-> ns,
                           hasEdges |-> he, edges |-> es,
                           hasElements |-> FALSE, elements |-> <<>>,
                           relationships |-> <<>>])
    \/ \E ids \in SeqsUpTo({"a", "b"}, MaxOptNodes), nr \in 0..1 :
           InitOptWith([hasNodes |-> FALSE, nodes |-> <<>>,
                        hasEdges |-> FALSE, edges |-> <<>>,
                        hasElements |-> TRUE,
                        elements |-> [i \in 1..Len(ids) |->
                                        FlatElement(ids[i])],
                        relationships |-> [i \in 1..nr |->
                                             FlatRelationship]])

\* store_diagram_with_embedding, line 111
OptimizeDiagramJson ==
    /\ pc = "start"
    /\ result' = optimize_diagram_json(raw)
    /\ pc' = "optimized"
    /\ UNCHANGED <<raw, diagram_data, element_level_indices, caught,
                   dbvars>>

NextOpt == OptimizeDiagramJson

SpecOpt == InitOpt /\ [][NextOpt]_vars

\* C15: a diagram given in the flat shape comes out with as many elements and
\* relationships as it went in, with the same ids and endpoints (and a
\* nodes/edges diagram with one element per node, one relationship per edge).
C15_FlatShapeKept ==
    (pc = "optimized") =>
        /\ raw.hasElements =>
              /\ Len(result.elements) = Len(raw.elements)
              /\ \A i \in Indices(raw.elements) :
                    result.elements[i].id = raw.elements[i].id
              /\ Len(result.relationships) = Len(raw.relationships)
              /\ \A i \in Indices(raw.relationships) :
                    /\ result.relationships[i].source_id
                          = raw.relationships[i].source_id
                    /\ result.relationships[i].target_id
                          = raw.relationships[i].target_id
        /\ raw.hasNodes => Len(result.elements) = Len(raw.nodes)
        /\ raw.hasEdges => Len(result.relationships) = Len(raw.edges)

\* C16: every node gives, in order, the element (id, type, label as name,
\* description, properties without the key id) and nothing else; every edge
\* gives, in order, the relationship (source, target, type) named by
\* data.name when that key is there, otherwise by a non-empty label.
C16_NodesAndEdgesMapped ==
    (pc = "optimized" /\ raw.hasNodes /\ raw.hasEdges) =>
        /\ result.diagram_type = "block"
        /\ Len(result.elements) = Len(raw.nodes)
        /\ \A i \in Indices(raw.nodes) :
              LET node == raw.nodes[i]
                  el == result.elements[i]
              IN /\ DOMAIN el = {"id", "type", "name", "description",
                                 "properties"}
                 /\ el.id = node.id
                 /\ el.type = node.type
                 /\ el.name = (IF node.data.hasLabel
                               THEN node.data.label ELSE "")
                 /\ el.description = (IF node.data.hasDescription
                                      THEN node.data.description ELSE "")
                 /\ "id" \notin DOMAIN el.properties
                 /\ node.data.hasProperties =>
                       /\ DOMAIN el.properties
                             = DOMAIN node.data.properties \ {"id"}
                       /\ \A k \in DOMAIN el.properties :
                             el.properties[k] = node.data.properties[k]
        /\ Len(result.relationships) = Len(raw.edges)
        /\ \A i \in Indices(raw.edges) :
              LET edge == raw.edges[i]
                  rel == result.relationships[i]
              IN /\ rel.source_id = edge.source
                 /\ rel.target_id = edge.target
                 /\ rel.type = edge.type
                 /\ (edge.dataKind = "dict" /\ edge.hasName) =>
                       rel.hasName /\ rel.name = edge.name
                 /\ (~(edge.dataKind = "dict" /\ edge.hasName)
                       /\ edge.hasLabel /\ edge.label # "") =>
                       rel.hasName /\ rel.name = edge.label
                 /\ (~(edge.dataKind = "dict" /\ edge.hasName)
                       /\ ~(edge.hasLabel /\ edge.label # "")) =>
                       ~rel.hasName

\* C16 witness: the node with properties.weight = "5kg" and an id among its
\* properties, an edge named by data.name over its label and one by its label
C16_Witness ==
    /\ pc = "optimized"
    /\ Len(raw.nodes) = 2 /\ Len(raw.edges) = 2
    /\ raw.nodes[1].id = "a" /\ raw.nodes[2].id = "b"
    /\ "id" \in DOMAIN raw.nodes[1].data.properties
    /\ result.elements[1].properties = [weight |-> "5kg"]
    /\ raw.edges[1].hasName /\ raw.edges[1].hasLabel
    /\ result.relationships[1].name = "feeds"
    /\ ~raw.edges[2].hasName
    /\ result.relationships[2].name = "L"

(* ====================================================================== *)
(* IBD upsert: crud_ibd.py 7-30, called from ibd_router.py 65-86 and from   *)
(* the loop of rag_router.py 225-252                                        *)
(*                                                                          *)
(*   ibd_table  sequence of rows [id, parent_bdd_diagram_id,                *)
(*              parent_block_id, nodes, edges, source]; the id of a row is  *)
(*              its index.  The table's definition is not part of the       *)
(*              sources at hand; the spec keys an IBD by the pair through   *)
(*              the lookup and names no lock and no constraint, and         *)
(*              crud_ibd.py 34-42 expects rows that share a block id, so    *)
(*              the table takes any row.                                    *)
(*   requests   one upsert per request: [pc, parent_bdd_diagram_id,         *)
(*              parent_block_id, nodes, edges, existing_ibd]                *)
(*              pc "idle" -> "lookup" -> "write" -> "done", or "failed"     *)
(*   commits    the requests in the order of their commits                  *)
(*   serial     TRUE when a request only starts once the others are over    *)
(* ====================================================================== *)

MaxRequests == 3

Requests == 1..MaxRequests

IbdPairs == {<<1, "a">>, <<2, "a">>}

IbdPayloads == {[nodes |-> <<"n1">>, edges |-> <<>>],
                [nodes |-> <<"n2">>, edges |-> <<"e1">>]}

\* filter_by(parent_block_id=block_id) alone
rows_by_block_only(table, parent_bdd_id, block_id) ==
    {i \in 1..Len(table) : table[i].parent_block_id = block_id}

\* crud_ibd.py 9-12: the rows the statement selects
rows_by_parent_and_block(table, parent_bdd_id, block_id) ==
    {i \in 1..Len(table) :
        /\ table[i].parent_bdd_diagram_id = parent_bdd_id
        /\ table[i].parent_block_id = block_id}

\* crud_ibd.py 7-14: scalar_one_or_none() gives None (id 0) for no row,
\* the row for one row, and raises MultipleResultsFound for more
get_ibd_by_parent_and_block(table, parent_bdd_id, block_id) ==
    LET rows == rows_by_parent_and_block(table, parent_bdd_id, block_id) IN
    IF Cardinality(rows) > 1 THEN [raised |-> TRUE, id |-> 0]
    ELSE IF rows = {} THEN [raised |-> FALSE, id |-> 0]
    ELSE [raised |-> FALSE, id |-> CHOOSE i \in rows : TRUE]

\* A row of the table: the attributes the spec gives an IBD, and the
\* primary key
InternalBlockDiagram(id, ibd) ==
    [id |-> id,
     parent_bdd_diagram_id |-> ibd.parent_bdd_diagram_id,
     parent_block_id |-> ibd.parent_block_id,
     nodes |-> ibd.nodes, edges |-> ibd.edges,
     source |-> "ai"]

\* crud_ibd.py 16-22: add and commit a new row
create_ibd(table, ibd) ==
    Append(table, InternalBlockDiagram(Len(table) + 1, ibd))

\* crud_ibd.py 24-30: write nodes and edges of the loaded row and commit
update_ibd(table, id, nodes, edges) ==
    [table EXCEPT ![id].nodes = nodes, ![id].edges = edges]

IdleRequest ==
    [pc |-> "idle", parent_bdd_diagram_id |-> 0, parent_block_id |-> "",
     nodes |-> <<>>, edges |-> <<>>, existing_ibd |-> 0]

Over(r) == requests[r].pc \in {"idle", "done", "failed"}

InitUpsertWith(oneAtATime) ==
    /\ raw = NoResult
    /\ diagram_data = raw
    /\ result = NoResult
    /\ element_level_indices = NoLevels
    /\ caught = FALSE
    /\ pc = "serving"
    /\ ibd_table = <<>>
    /\ diagram_table = <<>>
    /\ requests = [r \in Requests |-> IdleRequest]
    /\ commits = <<>>
    /\ serial = oneAtATime

\* Requests that arrive one after another
InitUpsert == InitUpsertWith(TRUE)

\* Requests whose awaits interleave (one AsyncSession per request)
InitUpsertConcurrent == InitUpsertWith(FALSE)

\* A request arrives with its pair and its nodes and edges
IbdRequest(r) ==
    /\ requests[r].pc = "idle"
    /\ serial => \A o \in Requests : Over(o)
    /\ \E pair \in IbdPairs, payload \in IbdPayloads :
          requests' = [requests EXCEPT
                         ![r].pc = "lookup",
                         ![r].parent_bdd_diagram_id = pair[1],
                         ![r].parent_block_id = pair[2],
                         ![r].nodes = payload.nodes,
                         ![r].edges = payload.edges]
    /\ UNCHANGED <<raw, diagram_data, result, element_level_indices, caught,
                   pc, ibd_table, diagram_table, commits, serial>>

\* ibd_router.py 66-70, rag_router.py 227-231: the awaited lookup; when it
\* raises, the handler's except turns the request into an error
IbdLookup(r) ==
    /\ requests[r].pc = "lookup"
    /\ LET found == get_ibd_by_parent_and_block(ibd_table,
                       requests[r].parent_bdd_diagram_id,
                       requests[r].parent_block_id)
       IN requests' = [requests EXCEPT
                         ![r].pc = IF found.raised THEN "failed" ELSE "write",
                         ![r].existing_ibd = found.id]
    /\ UNCHANGED <<raw, diagram_data, result, element_level_indices, caught,
                   pc, ibd_table, diagram_table, commits, serial>>

\* ibd_router.py 72-86, rag_router.py 233-252: update the row found, or
\* create one, and commit
IbdWrite(r) ==
    /\ requests[r].pc = "write"
    /\ ibd_table' = IF requests[r].existing_ibd # 0
                    THEN update_ibd(ibd_table, requests[r].existing_ibd,
                                    requests[r].nodes, requests[r].edges)
                    ELSE create_ibd(ibd_table, requests[r])
    /\ commits' = Append(commits, r)
    /\ requests' = [requests EXCEPT ![r].pc = "done"]
    /\ UNCHANGED <<raw, diagram_data, result, element_level_indices, caught,
                   pc, diagram_table, serial>>

NextUpsert ==
    \E r \in Requests : IbdRequest(r) \/ IbdLookup(r) \/ IbdWrite(r)

SpecUpsert == InitUpsert /\ [][NextUpsert]_vars

SpecUpsertConcurrent == InitUpsertConcurrent /\ [][NextUpsert]_vars

\* the positions in commits of the requests for the pair
CommitsFor(pair) ==
    {k \in 1..Len(commits) :
        /\ requests[commits[k]].parent_bdd_diagram_id = pair[1]
        /\ requests[commits[k]].parent_block_id = pair[2]}

\* the request that committed last for the pair
LastCommitFor(pair) ==
    commits[CHOOSE k \in CommitsFor(pair) :
              \A j \in CommitsFor(pair) : j <= k]

RowsFor(pair) == rows_by_parent_and_block(ibd_table, pair[1], pair[2])

\* one row for the pair, holding what the last commit for the pair wrote
LastWriterWins(pair) ==
    /\ Cardinality(RowsFor(pair)) = 1
    /\ \A i \in RowsFor(pair) :
          /\ ibd_table[i].nodes = requests[LastCommitFor(pair)].nodes
          /\ ibd_table[i].edges = requests[LastCommitFor(pair)].edges

\* C17: after any sequence of upserts run one after another there is at most
\* one row per pair, it holds the nodes and edges of the most recent upsert
\* for the pair, and an upsert for an existing pair creates no row (the rows
\* are as many as the pairs upserted).
C17_SerialUpsertKeepsOneRow ==
    /\ \A pair \in IbdPairs :
          /\ Cardinality(RowsFor(pair)) <= 1
          /\ CommitsFor(pair) # {} => LastWriterWins(pair)
          /\ CommitsFor(pair) = {} => RowsFor(pair) = {}
    /\ Len(ibd_table) = Cardinality({pair \in IbdPairs : CommitsFor(pair) # {}})
    /\ \A r \in Requests : requests[r].pc # "failed"

\* C17 witness: three upserts, two of them for one pair with different
\* nodes, left two rows
C17_Witness ==
    /\ Len(commits) = 3
    /\ Len(ibd_table) = 2
    /\ \E pair \in IbdPairs :
          /\ Cardinality(CommitsFor(pair)) = 2
          /\ \E j, k \in CommitsFor(pair) :
                requests[commits[j]].nodes # requests[commits[k]].nodes

MaxCalls == 3

RawTexts == {"drone with camera", "rover"}

StoredDiagrams ==
    { [hasNodes |-> TRUE,
       nodes |-> <<[id |-> "a", type |-> "block",
                    data |-> NodeData(TRUE, "Engine", FALSE, "", FALSE, <<>>)]>>,
       hasEdges |-> TRUE, edges |-> <<>>,
       hasElements |-> FALSE, elements |-> <<>>, relationships |-> <<>>],
      [hasNodes |-> FALSE, nodes |-> <<>>, hasEdges |-> FALSE, edges |-> <<>>,
       hasElements |-> TRUE, elements |-> <<FlatElement("a")>>,
       relationships |-> <<>>] }

\* a lookup that finds nothing
find_diagram_by_raw_text_none(table, raw_text) == 0

\* embeddings.py 26-32: the first row with the raw_text, None (0) without one
find_diagram_by_raw_text(table, raw_text) ==
    LET rows == {i \in 1..Len(table) : table[i].raw_text = raw_text} IN
    IF rows = {} THEN 0
    ELSE CHOOSE i \in rows : \A j \in rows : i <= j

StoreFaults == {"none", "embedding", "commit", "refresh"}

\* embeddings.py 106-162.  generate_embedding (line 117) is outside the try
\* and its failure leaves the session untouched; a failing commit is rolled
\* back and raised again (lines 159-162).  A refresh that fails (lines 133,
\* 153) comes after its commit: the rollback of line 161 has nothing left to
\* undo and the exception is raised again with the row written.
store_diagram_with_embedding(table, call) ==
    LET existing_diagram == find_diagram_by_raw_text(table, call.raw_text)
        optimized_json == optimize_diagram_json(call.diagram_json)
        id == IF existing_diagram # 0 THEN existing_diagram
              ELSE Len(table) + 1
        written ==
            IF existing_diagram # 0
            THEN [table EXCEPT
                    ![existing_diagram].name = call.name,
                    ![existing_diagram].diagram_json = optimized_json]
            ELSE Append(table,
                   [id |-> id, name |-> call.name,
                    raw_text |-> call.raw_text,
                    diagram_json |-> optimized_json])
    IN IF call.fault \in {"embedding", "commit"}
       THEN [table |-> table, raised |-> TRUE, id |-> 0, committed |-> 0]
       ELSE IF call.fault = "refresh"
       THEN [table |-> written, raised |-> TRUE, id |-> 0, committed |-> id]
       ELSE [table |-> written, raised |-> FALSE, id |-> id,
             committed |-> id]

InitStore ==
    /\ raw = NoResult
    /\ diagram_data = raw
    /\ result = [raised |-> FALSE, id |-> 0]
    /\ element_level_indices = NoLevels
    /\ caught = FALSE
    /\ pc = "storing"
    /\ ibd_table = <<>>
    /\ diagram_table = <<>>
    /\ requests = <<>>
    /\ commits = <<>>
    /\ serial = TRUE

\* One call, from its lookup to its return (create_diagram_embedding,
\* rag_router.py 26-42, or generate_diagram_with_context, line 216)
StoreDiagramWithEmbedding ==
    /\ pc = "storing"
    /\ Len(requests) < MaxCalls
    /\ \E text \in RawTexts, json \in StoredDiagrams, name \in {"v1", "v2"},
          fault \in StoreFaults :
         LET call == [name |-> name, raw_text |-> text,
                      diagram_json |-> json, fault |-> fault]
             out == store_diagram_with_embedding(diagram_table, call)
         IN /\ requests' = Append(requests, call)
            /\ diagram_table' = out.table
            /\ result' = [raised |-> out.raised, id |-> out.id]
            /\ commits' = IF out.committed = 0 THEN commits
                          ELSE Append(commits, out.committed)
    /\ UNCHANGED <<raw, diagram_data, element_level_indices, caught, pc,
                   ibd_table, serial>>

NextStore == StoreDiagramWithEmbedding

SpecStore == InitStore /\ [][NextStore]_vars

RowsWithText(table, text) ==
    {i \in 1..Len(table) : table[i].raw_text = text}

\* C19: calls made one after another keep at most one row per raw_text; a
\* call with a raw_text already stored updates that row and returns its id,
\* and a call with a new raw_text adds exactly one row.
C19_CreateOrUpdateByRawText ==
    [][LET call == requests'[Len(requests')]
           before == RowsWithText(diagram_table, call.raw_text)
       IN /\ \A text \in RawTexts :
                Cardinality(RowsWithText(diagram_table', text)) <= 1
          /\ (~result'.raised /\ before # {}) =>
                /\ result'.id \in before
                /\ Len(diagram_table') = Len(diagram_table)
                /\ diagram_table'[result'.id].name = call.name
                /\ diagram_table'[result'.id].diagram_json
                      = optimize_diagram_json(call.diagram_json)
                /\ \A i \in 1..Len(diagram_table) :
                      i # result'.id => diagram_table'[i] = diagram_table[i]
          /\ (~result'.raised /\ before = {}) =>
                /\ Len(diagram_table') = Len(diagram_table) + 1
                /\ result'.id = Len(diagram_table')
                /\ diagram_table'[result'.id].raw_text = call.raw_text
                /\ \A i \in 1..Len(diagram_table) :
                      diagram_table'[i] = diagram_table[i]
      ]_vars

\* C19 witness: three calls, two texts; the third call found its text stored
\* under another name and returned the first row
C19_Witness ==
    /\ Len(requests) = 3
    /\ Len(diagram_table) = 2
    /\ requests[1].raw_text = requests[3].raw_text
    /\ requests[1].name # requests[3].name
    /\ ~result.raised /\ result.id = 1
    /\ diagram_table[1].name = requests[3].name

(* ====================================================================== *)
(* Generation: generate_diagram, diagram_generation.py 285-482, and the     *)
(* endpoint generate_diagram_with_context, rag_router.py 83-269, for a      *)
(* request in mode "bdd" (no IBD is extracted or saved in that mode)        *)
(*                                                                          *)
(*   raw     what the model call gave: [outcome, parsed]                    *)
(*           outcome "fails" (the call raised), "not_json" (json.loads      *)
(*           raises) or "json" (parsed is the value read)                   *)
(*   result  what the caller gets: [hasError, hasDiagram, diagram]          *)
(* ====================================================================== *)

ModelOutcome(outcome, parsed) == [outcome |-> outcome, parsed |-> parsed]

\* diagram_generation.py 470-482: the error with the fallback diagram
ErrorWithFallback ==
    [hasError |-> TRUE, hasDiagram |-> TRUE, diagram |-> EmptyDiagram]

\* rag_router.py 181 and 269: the error alone
ErrorOnly ==
    [hasError |-> TRUE, hasDiagram |-> FALSE, diagram |-> NoResult]

Generated(d) == [hasError |-> FALSE, hasDiagram |-> TRUE, diagram |-> d]

\* diagram_generation.py 438-482.  Everything from the call on is inside the
\* try: a failing call, a failing json.loads, and the .get and len of line
\* 464 on a positioned value that is no mapping or has relationships None
\* all end in the except branch.
generate_diagram(outcome) ==
    IF outcome.outcome # "json"
    THEN ErrorWithFallback
    ELSE LET positioned_diagram == apply_positioning(outcome.parsed).value IN
         IF positioned_diagram.kind # "dict"
            \/ positioned_diagram.relKind = "none"
         THEN ErrorWithFallback
         ELSE Generated(positioned_diagram)

\* The generation function the endpoint imports.  It is not part of the
\* sources at hand; as the spec has it, a failing call or invalid JSON gives
\* the error with the fallback diagram, and otherwise the parsed value is
\* handed on as diagram_raw.
generate_sysml_diagram(outcome) ==
    IF outcome.outcome # "json"
    THEN ErrorWithFallback
    ELSE Generated(outcome.parsed)

\* the flat diagram as optimize_diagram_json sees it: no nodes, no edges
AsDiagramJson(d) ==
    [hasNodes |-> FALSE, nodes |-> <<>>, hasEdges |-> FALSE, edges |-> <<>>,
     hasElements |-> d.kind = "dict", elements |-> d.elements,
     relationships |-> d.relationships]

\* rag_router.py 172-269 in mode "bdd": generate, give up on an error,
\* position, store, answer; any exception becomes the error alone
generate_diagram_with_context(outcome, table, text, fault) ==
    LET generation_result == generate_sysml_diagram(outcome) IN
    IF generation_result.hasError
    THEN [response |-> ErrorOnly, table |-> table]
    ELSE LET positioned_diagram ==
                 apply_positioning(generation_result.diagram).value
             stored == store_diagram_with_embedding(table,
                          [name |-> "Generated Diagram", raw_text |-> text,
                           diagram_json |-> AsDiagramJson(positioned_diagram),
                           fault |-> fault])
         IN IF stored.raised
            THEN [response |-> ErrorOnly, table |-> stored.table]
            ELSE [response |-> Generated(positioned_diagram),
                  table |-> stored.table]

InitGenWith(outcome) ==
    /\ raw = outcome
    /\ diagram_data = NoResult
    /\ result = NoResult
    /\ element_level_indices = NoLevels
    /\ caught = FALSE
    /\ pc = "start"
    /\ NoDatabase

\* The model call raised, answered with text that is no JSON, or answered
\* with JSON of any shape
InitGen ==
    \/ \E o \in {"fails", "not_json"} : InitGenWith(ModelOutcome(o, NoResult))
    \/ \E k \in {"none", "list", "str"} :
          InitGenWith(ModelOutcome("json", NonDict(k)))
    \/ \E ht \in BOOLEAN, ek \in {"missing", "none", "str"}, rv \in RelValues :
          InitGenWith(ModelOutcome("json", Dict(ht, ek, <<>>, rv[1], rv[2])))
    \/ \E es \in SeqsUpTo(ElemChoice, MaxElems), rv \in RelValues :
          InitGenWith(ModelOutcome("json",
                                   Dict(TRUE, "list", es, rv[1], rv[2])))

\* A caller of generate_diagram gets its result
GenerateDiagram ==
    /\ pc = "start"
    /\ result' = generate_diagram(raw)
    /\ caught' = result'.hasError
    /\ pc' = "generated"
    /\ UNCHANGED <<raw, diagram_data, element_level_indices, dbvars>>

\* A client of POST /rag/generate-diagram-with-context/ gets its response
GenerateDiagramWithContext ==
    /\ pc = "start"
    /\ \E text \in RawTexts, fault \in StoreFaults :
         LET out == generate_diagram_with_context(raw, diagram_table,
                                                  text, fault)
         IN /\ result' = out.response
            /\ diagram_table' = out.table
    /\ caught' = result'.hasError
    /\ pc' = "responded"
    /\ UNCHANGED <<raw, diagram_data, element_level_indices,
                   ibd_table, requests, commits, serial>>

NextGen == GenerateDiagram \/ GenerateDiagramWithContext

SpecGen == InitGen /\ [][NextGen]_vars

\* C20: when the model call fails or its text is no valid JSON, the caller of
\* generate_diagram and the client of the endpoint both get an error field
\* together with the empty fallback diagram (block, no elements, no
\* relationships).
C20_FailureCarriesFallbackDiagram ==
    (pc \in {"generated", "responded"} /\ raw.outcome \in {"fails", "not_json"})
    => /\ result.hasError
       /\ result.hasDiagram
       /\ result.diagram = EmptyDiagram

\* C21: when the model call succeeds and its output parses as JSON,
\* generate_diagram returns a diagram that is a mapping and no error field,
\* whatever the parsed value is.
C21_ParsedJsonGivesNoError ==
    (pc = "generated" /\ raw.outcome = "json")
    => /\ ~result.hasError
       /\ result.hasDiagram
       /\ result.diagram.kind = "dict"

\* C22: when the commit or the refresh of store_diagram_with_embedding
\* raises, the call raises (once, there is no second attempt) and the rows of
\* the diagram table and their contents are what they were before the call.
C22_FailedStoreLeavesTable ==
    [][requests'[Len(requests')].fault \in {"commit", "refresh"}
         => /\ result'.raised
            /\ diagram_table' = diagram_table
            /\ Len(requests') = Len(requests) + 1
      ]_vars

\* C23: after apply_positioning, every element whose type is absent or is
\* not an allowed type has the type "block", and every element with an
\* allowed type keeps it.
C23_UnknownTypeBecomesBlock ==
    (pc = "done" /\ DiagramInvariants(raw)) =>
        \A i \in Indices(raw.elements) :
            LET before == raw.elements[i]
                after == result.elements[i]
            IN IF before.hasType /\ before.type \in AllowedTypes
               THEN after.hasType /\ after.type = before.type
               ELSE after.hasType /\ after.type = "block"

(* ====================================================================== *)
(* The conversation of generate_diagram, diagram_generation.py 300-424      *)
(*                                                                          *)
(*   raw     the arguments: [prompt, isNone, one_shot_examples]; isNone is  *)
(*           the default one_shot_examples = None                           *)
(*   example [input, output]                                                *)
(*   result  the messages, each [role, content]                             *)
(* ====================================================================== *)

MaxExamples == 3

SystemPrompt == "You are a SysML diagram expert. ..."

\* json.dumps: the text of a value, not the value
json_dumps(value) == [text_of |-> value]

Message(role, content) == [role |-> role, content |-> content]

\* the assistant's answer put before the user's question
example_messages_answer_first(example) ==
    << Message("assistant", json_dumps(example.output)),
       Message("user", example.input) >>

\* Lines 411-417: the two messages of one example
example_messages(example) ==
    << Message("user", example.input),
       Message("assistant", json_dumps(example.output)) >>

\* Lines 411-419: the loop over the examples
RECURSIVE append_examples(_, _, _)
append_examples(messages, one_shot_examples, i) ==
    IF i > Len(one_shot_examples)
    THEN messages
    ELSE append_examples(messages \o example_messages(one_shot_examples[i]),
                         one_shot_examples, i + 1)

\* Lines 300-424
build_messages(args) ==
    LET messages == << Message("system", SystemPrompt) >>
        with_examples ==
            IF ~args.isNone /\ Len(args.one_shot_examples) > 0
            THEN append_examples(messages, args.one_shot_examples, 1)
            ELSE messages
    IN Append(with_examples, Message("user", args.prompt))

ExampleChoice ==
    { [input |-> i, output |-> o] :
        i \in {"drone with camera", "rover"}, o \in {"diagram 1", "diagram 2"} }

InitChat ==
    \E prompt \in {"rover", "boat"}, none \in BOOLEAN :
      \E examples \in SeqsUpTo(ExampleChoice, MaxExamples) :
        /\ (none => examples = <<>>)
        /\ raw = [prompt |-> prompt, isNone |-> none,
                  one_shot_examples |-> examples]
        /\ diagram_data = NoResult
        /\ result = <<>>
        /\ element_level_indices = NoLevels
        /\ caught = FALSE
        /\ pc = "start"
        /\ NoDatabase

\* The messages are complete and go to the model (line 441)
SendConversation ==
    /\ pc = "start"
    /\ result' = build_messages(raw)
    /\ pc' = "sent"
    /\ UNCHANGED <<raw, diagram_data, element_level_indices, caught, dbvars>>

NextChat == SendConversation

SpecChat == InitChat /\ [][NextChat]_vars

\* C24: for n examples the conversation is one system message, then per
\* example in the given order a user message with its input and an assistant
\* message with the JSON text of its output, then the prompt as the last
\* user message: 2n + 2 messages.
C24_ExamplesBeforePrompt ==
    (pc = "sent") =>
        LET n == Len(raw.one_shot_examples) IN
        /\ Len(result) = 2 * n + 2
        /\ result[1] = Message("system", SystemPrompt)
        /\ \A k \in 1..n :
              /\ result[2 * k] =
                    Message("user", raw.one_shot_examples[k].input)
              /\ result[2 * k + 1] =
                    Message("assistant",
                            json_dumps(raw.one_shot_examples[k].output))
        /\ result[2 * n + 2] = Message("user", raw.prompt)

\* C24 witness: two different examples, six messages sent
C24_Witness ==
    /\ pc = "sent"
    /\ Len(raw.one_shot_examples) = 2
    /\ raw.one_shot_examples[1] # raw.one_shot_examples[2]
    /\ Len(result) = 6
    /\ result[4].content = raw.one_shot_examples[2].input
    /\ result[6].content = raw.prompt

\* the id the element at index i has once apply_positioning (lines 66-69,
\* called at rag_router.py 213) has run over the extracted diagram
FinalId(elements, i) ==
    IF ~elements[i].hasId \/ Falsy(elements[i].id)
    THEN AssignedId(i - 1)
    ELSE elements[i].id

\* C25: ids are assigned before the internal diagrams are extracted: for
\* every raw enhanced diagram, also with a carrier that has no id, the
\* extraction does not fail and every record's parent_block_id is the id of
\* an element of the final diagram.
C25_IdsAssignedBeforeExtraction ==
    (pc = "extracted" /\ raw.diagram_type = "bdd_enhanced" /\ raw.hasElements)
    => /\ ~result.raised
       /\ \A k \in Indices(result.ibd_to_create) :
             \E i \in Indices(result.elements) :
                result.ibd_to_create[k].parent_block_id
                   = FinalId(result.elements, i)

\* the ids that are the source, and the target, of a returned relationship
SourcesOf(d) ==
    {d.relationships[k].source_id : k \in Indices(d.relationships)}

TargetsOf(d) ==
    {d.relationships[k].target_id : k \in Indices(d.relationships)}

\* C26: the elements are put on three levels by in/out-degree over the valid
\* relationships: only a target: y = -200; only a source: y = 200; both, or
\* neither: y = 0; no other y is assigned, whatever the depth of the graph.
C26_ThreeLevelsByDegree ==
    (pc = "done") =>
        \A i \in Indices(result.elements) :
            LET id == result.elements[i].id
                isSource == id \in SourcesOf(result)
                isTarget == id \in TargetsOf(result)
                y == result.elements[i].y
            IN /\ result.elements[i].hasPos
               /\ y \in {0 - 200, 0, 200}
               /\ (isTarget /\ ~isSource) => y = 0 - 200
               /\ (isSource /\ ~isTarget) => y = 200
               /\ (isSource = isTarget) => y = 0
               /\ element_level_indices[id] * 200 = y

\* C26 witness: the chain a -> b -> c -> d, three relationships deep, laid
\* out on three levels
C26_Witness ==
    /\ pc = "done"
    /\ Len(result.elements) = 4
    /\ Len(result.relationships) = 3
    /\ SourcesOf(result) = {"a", "b", "c"}
    /\ TargetsOf(result) = {"b", "c", "d"}
    /\ result.elements[1].y = 200
    /\ result.elements[2].y = 0 /\ result.elements[3].y = 0
    /\ result.elements[4].y = 0 - 200

\* C29: in the returned diagram no relationship has its target below its
\* source: y(target) <= y(source), also in cycles and for self-loops.
C29_TargetNotBelowSource ==
    (pc \in {"done", "again"} /\ WellTyped(raw)) =>
        \A k \in Indices(result.relationships) :
            \A i, j \in Indices(result.elements) :
                (/\ result.elements[i].id = result.relationships[k].source_id
                 /\ result.elements[j].id = result.relationships[k].target_id)
                => /\ result.elements[i].hasPos /\ result.elements[j].hasPos
                   /\ result.elements[j].y <= result.elements[i].y

\* C29 witness: a self-loop and a two-cycle a -> b -> a, both elements on
\* the middle level
C29_Witness ==
    /\ pc = "done"
    /\ \E k \in Indices(result.relationships) :
          result.relationships[k].source_id = result.relationships[k].target_id
    /\ \E k, l \in Indices(result.relationships) :
          /\ result.relationships[k].source_id = "a"
          /\ result.relationships[k].target_id = "b"
          /\ result.relationships[l].source_id = "b"
          /\ result.relationships[l].target_id = "a"
    /\ Len(result.elements) >= 2
    /\ result.elements[1].y = 0 /\ result.elements[2].y = 0

(* ====================================================================== *)
(* GET /diagrams/ibd/{parent_block_id}: ibd_router.py 10-48 and             *)
(* crud_ibd.py 32-42, on the table the upserts fill                         *)
(*                                                                          *)
(*   result  the last answer: [block_id, found, id, nodes]; found = FALSE   *)
(*           is the 404                                                     *)
(* ====================================================================== *)

BlockIds == {"a", "b"}

\* crud_ibd.py 39: the rows the statement selects
rows_by_block_id(table, block_id) ==
    {i \in 1..Len(table) : table[i].parent_block_id = block_id}

\* ibd_router.py 29-35 and 42: the stored nodes as the elements of a diagram
\* without relationships, laid out
positioned_nodes(nodes) ==
    apply_positioning(
        Dict(TRUE, "list", [i \in 1..Len(nodes) |-> Elem(TRUE, nodes[i])],
             "list", <<>>)).value.elements

\* ibd_router.py 25-48 for the row that get_ibd_by_block_id returned
ibd_response(table, block_id, id) ==
    [block_id |-> block_id, found |-> TRUE, id |-> id,
     nodes |-> positioned_nodes(table[id].nodes)]

\* One GET.  The statement of crud_ibd.py 39 has no ORDER BY, so with several
\* rows for the block scalars().first() returns whichever row the database
\* yields first: any of them.
ReadIbdByBlockId ==
    /\ pc = "serving"
    /\ \E block_id \in BlockIds :
         LET rows == rows_by_block_id(ibd_table, block_id) IN
         IF rows = {}
         THEN result' = [block_id |-> block_id, found |-> FALSE, id |-> 0,
                         nodes |-> <<>>]
         ELSE \E id \in rows :
                 result' = ibd_response(ibd_table, block_id, id)
    /\ UNCHANGED <<raw, diagram_data, element_level_indices, caught, pc,
                   dbvars>>

NextRead == NextUpsert \/ ReadIbdByBlockId

SpecRead == InitUpsert /\ [][NextRead]_vars

\* C28: a GET for a block without an IBD finds none, and a GET for a block
\* that several rows share returns the newest, the most recently created row.
C28_ReadReturnsNewest ==
    [][result' # result =>
         LET rows == rows_by_block_id(ibd_table, result'.block_id) IN
         IF rows = {}
         THEN ~result'.found
         ELSE /\ result'.found
              /\ result'.id \in rows
              /\ \A i \in rows : i <= result'.id
      ]_vars

(* ====================================================================== *)
(* The whole request in mode "bdd_enhanced": generate_diagram_with_context, *)
(* rag_router.py 172-269, and POST /diagrams/ibd/, on both tables           *)
(*                                                                          *)
(*   requests  the kinds of the requests served so far                      *)
(*   result    the last response: [kind, hasError, hasDiagram, diagram,     *)
(*             diagram_id]                                                  *)
(*   A fault is the one await of the request that raises, if any:           *)
(*   [at, store, k]: at "none" | "model" | "store" (store names the await   *)
(*   of store_diagram_with_embedding) | "ibd" (the commit of the k-th IBD   *)
(*   of the request)                                                        *)
(* ====================================================================== *)

MaxServed == 2

Fault(at, store, k) == [at |-> at, store |-> store, k |-> k]

PipelineFaults ==
    {Fault("none", "none", 0), Fault("model", "none", 0)}
      \cup {Fault("store", f, 0) : f \in StoreFaults \ {"none"}}
      \cup {Fault("ibd", "none", k) : k \in 1..MaxBlocks}

\* the elements as apply_positioning reads them: a mapping with or without
\* an id (data.has_ibd is payload to the layout)
AsElements(blocks) ==
    [i \in 1..Len(blocks) |-> Elem(blocks[i].hasId, blocks[i].id)]

\* rag_router.py 225-252: the upserts of the request's IBDs, in order; the
\* lookup raises on several rows, and the commit of the failAt-th raises
RECURSIVE save_ibds(_, _, _, _, _)
save_ibds(table, diagram_id, ibd_to_create, i, failAt) ==
    IF i > Len(ibd_to_create)
    THEN [table |-> table, raised |-> FALSE]
    ELSE LET ibd_data == ibd_to_create[i]
             existing_ibd == get_ibd_by_parent_and_block(
                                table, diagram_id, ibd_data.parent_block_id)
         IN IF existing_ibd.raised \/ i = failAt
            THEN [table |-> table, raised |-> TRUE]
            ELSE save_ibds(
                   IF existing_ibd.id # 0
                   THEN update_ibd(table, existing_ibd.id,
                                   ibd_data.nodes, ibd_data.edges)
                   ELSE create_ibd(table,
                          [parent_bdd_diagram_id |-> diagram_id,
                           parent_block_id |-> ibd_data.parent_block_id,
                           nodes |-> ibd_data.nodes,
                           edges |-> ibd_data.edges]),
                   diagram_id, ibd_to_create, i + 1, failAt)

EnhancedError(diagrams, ibds) ==
    [response |-> [kind |-> "generate", hasError |-> TRUE,
                   hasDiagram |-> FALSE, diagram |-> NoResult,
                   diagram_id |-> 0],
     diagrams |-> diagrams, ibds |-> ibds]

\* rag_router.py 172-269 in mode "bdd_enhanced": generate, extract the
\* internal diagrams, lay out, store the diagram, upsert the IBDs, answer.
\* Every exception ends in the except of 267-269: an error response, with
\* whatever was committed before it left in the tables.
generate_enhanced(blocks, diagrams, ibds, text, fault) ==
    IF fault.at = "model"
    THEN EnhancedError(diagrams, ibds)
    ELSE
    LET extracted == extract_ibds([diagram_type |-> "bdd_enhanced",
                                   hasElements |-> TRUE, elements |-> blocks])
    IN
    IF extracted.raised
    THEN EnhancedError(diagrams, ibds)
    ELSE
    LET positioned_diagram ==
            apply_positioning(Dict(TRUE, "list", AsElements(extracted.elements),
                                   "list", <<>>)).value
        db_diagram == store_diagram_with_embedding(diagrams,
                         [name |-> "Generated Diagram", raw_text |-> text,
                          diagram_json |-> AsDiagramJson(positioned_diagram),
                          fault |-> fault.store])
    IN
    IF db_diagram.raised
    THEN EnhancedError(db_diagram.table, ibds)
    ELSE
    LET saved == save_ibds(ibds, db_diagram.id, extracted.ibd_to_create, 1,
                           IF fault.at = "ibd" THEN fault.k ELSE 0)
    IN
    IF saved.raised
    THEN EnhancedError(db_diagram.table, saved.table)
    ELSE [response |-> [kind |-> "generate", hasError |-> FALSE,
                        hasDiagram |-> TRUE, diagram |-> positioned_diagram,
                        diagram_id |-> db_diagram.id],
          diagrams |-> db_diagram.table, ibds |-> saved.table]

\* what the model answers in enhanced mode: blocks with an id or without,
\* with an internal diagram or without
EnhancedBlockChoice == {b \in BlockChoice : ~b.hasData}

InitServe ==
    /\ raw = NoResult
    /\ diagram_data = NoResult
    /\ result = NoResult
    /\ element_level_indices = NoLevels
    /\ caught = FALSE
    /\ pc = "serving"
    /\ NoDatabase

\* One POST /rag/generate-diagram-with-context/ in enhanced mode, served
\* from start to response
GenerateEnhanced ==
    /\ pc = "serving"
    /\ Len(requests) < MaxServed
    /\ \E text \in RawTexts, fault \in PipelineFaults :
         \E blocks \in SeqsUpTo(EnhancedBlockChoice, MaxBlocks) :
           LET out == generate_enhanced(blocks, diagram_table, ibd_table,
                                        text, fault)
           IN /\ Len(blocks) > 0
              /\ result' = out.response
              /\ diagram_table' = out.diagrams
              /\ ibd_table' = out.ibds
    /\ requests' = Append(requests, "generate")
    /\ UNCHANGED <<raw, diagram_data, element_level_indices, caught, pc,
                   commits, serial>>

\* One POST /diagrams/ibd/ (ibd_router.py 50-101) for a diagram that is
\* stored, served from start to response
PostIbd ==
    /\ pc = "serving"
    /\ Len(requests) < MaxServed
    /\ \E parent_bdd_id \in 1..Len(diagram_table), block_id \in BlockIds,
          payload \in IbdPayloads :
         LET saved == save_ibds(ibd_table, parent_bdd_id,
                        << [parent_block_id |-> block_id,
                            nodes |-> payload.nodes,
                            edges |-> payload.edges] >>, 1, 0)
         IN /\ ibd_table' = saved.table
            /\ result' = [kind |-> "post", hasError |-> saved.raised,
                          hasDiagram |-> FALSE, diagram |-> NoResult,
                          diagram_id |-> parent_bdd_id]
    /\ requests' = Append(requests, "post")
    /\ UNCHANGED <<raw, diagram_data, element_level_indices, caught, pc,
                   diagram_table, commits, serial>>

NextServe == GenerateEnhanced \/ PostIbd

SpecServe == InitServe /\ [][NextServe]_vars

\* the ids of the elements of a stored diagram_json
StoredElementIds(row) ==
    {row.diagram_json.elements[i].id : i \in Indices(row.diagram_json.elements)}

\* C27: every row of the IBD table names a stored diagram, and its
\* parent_block_id is the id of an element of that diagram's diagram_json.
C27_IbdHasItsParent ==
    \A i \in Indices(ibd_table) :
        /\ ibd_table[i].parent_bdd_diagram_id \in 1..Len(diagram_table)
        /\ ibd_table[i].parent_block_id \in
              StoredElementIds(diagram_table[ibd_table[i].parent_bdd_diagram_id])

\* C30: a generate request that answers with an error leaves both tables as
\* they were before it.
C30_ErrorLeavesNothingPersisted ==
    [][(/\ Len(requests') = Len(requests) + 1
        /\ result'.kind = "generate"
        /\ result'.hasError)
       => /\ diagram_table' = diagram_table
          /\ ibd_table' = ibd_table
      ]_vars

====
